---- MODULE Spec2Model ----
(***************************************************************************)
(* Model of brew-up's application scanner (src/brew_scanner.py, and the    *)
(* identical matching code of src/brew_scanner_simple.py).                 *)
(*                                                                         *)
(* A name is a sequence of one-character strings.  Python's None is the    *)
(* empty tuple <<>> and a present Optional value x is <<x>>.  A Python set *)
(* is the sequence of its elements in the set's iteration order, without   *)
(* repetition.  The environment (what `brew list` prints, what the         *)
(* application directories hold, sys.platform) is chosen in Init and stays *)
(* fixed during one run of the program; whether a fetch fails is decided   *)
(* at every scan.                                                          *)
(***************************************************************************)
EXTENDS Naturals, Sequences, FiniteSets

VARIABLES
    platform,            \* sys.platform of the process
    listed_formulae,     \* environment: names `brew list --formula` yields
    listed_casks,        \* environment: names `brew list --cask` yields
    fs_items,            \* environment: per application directory, in the
                         \* order the code visits them, its os.listdir,
                         \* or None when the directory does not exist
    brew_status,         \* how the two `brew list` commands of the scan ended
    brew_formulae,       \* BrewScanner.brew_formulae
    brew_casks,          \* BrewScanner.brew_casks
    installed_apps,      \* BrewScanner.installed_apps
    pc,                  \* where the main loop stands
    idx,                 \* check_brew_equivalents: next record of the loop
    summary,             \* show_summary: the counts it prints
    export_data,         \* export_to_json: the dictionary it dumps
    written,             \* export_to_json: the text found in the file it
                         \* opened, None when there is no file
    view                 \* browse_applications: the filtered list shown

vars == <<platform, listed_formulae, listed_casks, fs_items, brew_status,
          brew_formulae, brew_casks, installed_apps, pc, idx, summary,
          export_data, written, view>>

env == <<platform, listed_formulae, listed_casks, fs_items>>

-----------------------------------------------------------------------------
(* Bounds of the explored inputs *)

MaxPackages == 2
MaxApps == 2
MaxNameLen == 3
MaxWritten == 2

(* Optional values *)
None == <<>>
Some(x) == <<x>>

(* Names the environment draws from *)
CatalogNames ==
    { <<"a", "b">>, <<"A">> }

AppStems ==
    { <<"A", " ", "b">>, <<"a", "-", "b">>, <<"a">>, <<"c">> }

Platforms == {"darwin", "linux", "win32"}

\* Characters of a raw name: letters of both cases, the space, the hyphen,
\* the quote and the backslash
NameChars == {"a", "A", " ", "-", "\"", "\\"}

\* Every raw name of at most n characters
RawNames(n) == UNION {[1..k -> NameChars] : k \in 0..n}

-----------------------------------------------------------------------------
(* subprocess.run(..., check=True) of `brew list --formula` and of          *)
(* `brew list --cask`: it returns, it raises CalledProcessError, or it has *)
(* not been run                                                            *)
Status(formula, cask) == [formula |-> formula, cask |-> cask]

NotRun == Status("none", "none")

-----------------------------------------------------------------------------
(* Strings *)

\* str.lower()
LowerChar(c) ==
    CASE c = "A" -> "a"
      [] c = "C" -> "c"
      [] c = "G" -> "g"
      [] c = "R" -> "r"
      [] c = "T" -> "t"
      [] OTHER -> c

\* Variant: str.swapcase in place of str.lower
lower_Swapcase(s) ==
    [k \in 1..Len(s) |-> IF s[k] = "A" THEN "a" ELSE IF s[k] = "a" THEN "A" ELSE s[k]]

lower(s) == [k \in 1..Len(s) |-> LowerChar(s[k])]

\* str.replace(ch, '')
remove(s, ch) == SelectSeq(s, LAMBDA c : c # ch)

\* str.replace(old, new) for single characters
replace(s, old, new) == [k \in 1..Len(s) |-> IF s[k] = old THEN new ELSE s[k]]

\* Variant: the empty string is contained in nothing
contains_NonEmpty(y, x) ==
    /\ x # <<>>
    /\ \E k \in 0..Len(y) : k + Len(x) <= Len(y) /\ SubSeq(y, k + 1, k + Len(x)) = x

\* Python's `x in y` on strings
contains(y, x) ==
    \E k \in 0..Len(y) : k + Len(x) <= Len(y) /\ SubSeq(y, k + 1, k + Len(x)) = x

-----------------------------------------------------------------------------
(* Records *)

\* AppInfo(name, path, is_brew, brew_type): the two equivalence fields default to None
AppInfo(name, path, is_brew, brew_type) ==
    [name |-> name, path |-> path, is_brew |-> is_brew, brew_type |-> brew_type,
     has_brew_equivalent |-> None, brew_equivalent |-> None]

\* Python truthiness of an Optional[bool]
Truthy(opt) == opt = Some(TRUE)

\* The suffix the loop of the platform keeps: '.app' in get_applications_macos,
\* '.desktop' in get_applications_linux
AppExt(p) == IF p = "darwin" THEN "app" ELSE "desktop"

\* The home directory of the user (the environment's HOME)
HOME == "/Users/u"

\* os.path.expanduser('~' + rest)
expanduser(rest) == HOME \o rest

\* app_dirs of get_applications_macos and desktop_dirs of
\* get_applications_linux, in the order the loops visit them
app_dirs == <<"/Applications", "/System/Applications", expanduser("/Applications")>>

desktop_dirs ==
    <<"/usr/share/applications", expanduser("/.local/share/applications")>>

\* The entries the nested loops `for app_dir in dirs: if os.path.exists(app_dir):
\* for item in os.listdir(app_dir)` visit, each with its directory; fs[d] is
\* None when dirs[d] does not exist, else Some(listing)
RECURSIVE Visited(_, _)
Visited(dirs, fs) ==
    IF dirs = <<>> THEN <<>>
    ELSE (IF Head(fs) = None THEN <<>>
          ELSE [k \in 1..Len(Head(fs)[1]) |->
                   [app_dir |-> Head(dirs), item |-> Head(fs)[1][k]]])
             \o Visited(Tail(dirs), Tail(fs))

\* os.path.join(app_dir, item)
full_path(app_dir, item) == <<app_dir, "/">> \o item.stem \o <<".", item.ext>>

-----------------------------------------------------------------------------
(* Stage 1: ownership, decided when the record is created *)

\* The generator expression of get_applications_macos for one cask;
\* app_name is already lowercase
CaskOwns(cask, app_name) ==
    \/ lower(cask) = app_name
    \/ remove(lower(cask), "-") = remove(app_name, "-")
    \/ remove(lower(cask), "-") = remove(app_name, " ")

is_brew_cask(app_name, casks) ==
    \E k \in 1..Len(casks) : CaskOwns(casks[k], app_name)

\* Variant: the comparison keeps the case of both names
is_brew_formula_CaseSensitive(app_name, formulae) ==
    \E k \in 1..Len(formulae) : formulae[k] = app_name

is_brew_formula(app_name, formulae) ==
    \E k \in 1..Len(formulae) : lower(formulae[k]) = lower(app_name)

\* The body of the loops of get_applications_macos for one bundle: the
\* record appended for `item` of `app_dir`
macos_app(app_dir, item, casks) ==
    LET owned == is_brew_cask(lower(item.stem), casks)
    IN  AppInfo(item.stem, full_path(app_dir, item),
                owned, IF owned THEN Some("cask") ELSE None)

\* Variant: brew_type is 'cask' for every bundle
get_applications_macos_AlwaysTyped(fs, casks) ==
    LET bundles == SelectSeq(Visited(app_dirs, fs), LAMBDA e : e.item.ext = "app")
    IN  [k \in 1..Len(bundles) |->
            AppInfo(bundles[k].item.stem,
                    full_path(bundles[k].app_dir, bundles[k].item),
                    is_brew_cask(lower(bundles[k].item.stem), casks), Some("cask"))]

\* fs: the listings of app_dirs
get_applications_macos(fs, casks) ==
    LET bundles == SelectSeq(Visited(app_dirs, fs), LAMBDA e : e.item.ext = "app")
    IN  [k \in 1..Len(bundles) |->
            macos_app(bundles[k].app_dir, bundles[k].item, casks)]

\* The body of the loops of get_applications_linux for one desktop entry
linux_app(desktop_dir, item, formulae) ==
    LET owned == is_brew_formula(item.stem, formulae)
    IN  AppInfo(item.stem, full_path(desktop_dir, item),
                owned, IF owned THEN Some("formula") ELSE None)

\* Variant: only the entries that are not formulae are appended
get_applications_linux_SkipsOwned(fs, formulae) ==
    LET entries == SelectSeq(Visited(desktop_dirs, fs), LAMBDA e :
                       e.item.ext = "desktop" /\ ~is_brew_formula(e.item.stem, formulae))
    IN  [k \in 1..Len(entries) |->
            AppInfo(entries[k].item.stem,
                    full_path(entries[k].app_dir, entries[k].item), FALSE, None)]

\* fs: the listings of desktop_dirs
get_applications_linux(fs, formulae) ==
    LET entries == SelectSeq(Visited(desktop_dirs, fs), LAMBDA e : e.item.ext = "desktop")
    IN  [k \in 1..Len(entries) |->
            linux_app(entries[k].app_dir, entries[k].item, formulae)]

-----------------------------------------------------------------------------
(* Stage 2: equivalence search *)

\* Variant: the key keeps the case of the name
AppKey_CasePreserved(name) == replace(name, " ", "-")

\* app_name_lower = app.name.lower().replace(' ', '-')
AppKey(name) == replace(lower(name), " ", "-")

\* app_name_lower.replace('-', ''): lowercase, spaces and hyphens removed
StrippedKey(name) == remove(AppKey(name), "-")

\* Variant: without the test `cask.lower() in app_name_lower`
Equivalent_NoCatalogInKey(entry, app_name_lower) ==
    \/ lower(entry) = app_name_lower
    \/ remove(lower(entry), "-") = remove(app_name_lower, "-")
    \/ contains(lower(entry), app_name_lower)

\* Variant: without the test `app_name_lower in cask.lower()`
Equivalent_NoKeyInCatalog(entry, app_name_lower) ==
    \/ lower(entry) = app_name_lower
    \/ remove(lower(entry), "-") = remove(app_name_lower, "-")
    \/ contains(app_name_lower, lower(entry))

\* The condition of the two inner loops, for one catalog entry
Equivalent(entry, app_name_lower) ==
    \/ lower(entry) = app_name_lower
    \/ remove(lower(entry), "-") = remove(app_name_lower, "-")
    \/ contains(lower(entry), app_name_lower)
    \/ contains(app_name_lower, lower(entry))

\* Positions of a catalog, in iteration order, whose entry passes the condition
Hits(catalog, app_name_lower) ==
    {k \in 1..Len(catalog) : Equivalent(catalog[k], app_name_lower)}

\* Variant: the loop has no break, the last passing entry wins
FirstHit_NoBreak(catalog, app_name_lower) ==
    CHOOSE k \in Hits(catalog, app_name_lower) :
        \A j \in Hits(catalog, app_name_lower) : k >= j

\* The position at which `for ... break` stops
FirstHit(catalog, app_name_lower) ==
    CHOOSE k \in Hits(catalog, app_name_lower) :
        \A j \in Hits(catalog, app_name_lower) : k <= j

\* Variant: the loop sets the flag and leaves the name unset
SearchCatalog_NameNotStored(app, catalog) ==
    IF Hits(catalog, AppKey(app.name)) = {}
    THEN app
    ELSE [app EXCEPT !.has_brew_equivalent = Some(TRUE)]

\* Variant: the loop breaks after its first iteration, passing or not
SearchCatalog_FirstEntryOnly(app, catalog) ==
    IF catalog # <<>> /\ Equivalent(catalog[1], AppKey(app.name))
    THEN [app EXCEPT !.has_brew_equivalent = Some(TRUE),
                     !.brew_equivalent = Some(catalog[1])]
    ELSE app

\* One catalog loop: the first passing entry is recorded, then break
SearchCatalog(app, catalog) ==
    IF Hits(catalog, AppKey(app.name)) = {}
    THEN app
    ELSE [app EXCEPT !.has_brew_equivalent = Some(TRUE),
                     !.brew_equivalent =
                         Some(catalog[FirstHit(catalog, AppKey(app.name))])]

\* Variant: the formulae are searched before the casks
CheckApp_FormulaFirst(app, casks, formulae) ==
    IF app.is_brew
    THEN app
    ELSE LET a1 == SearchCatalog(app, formulae)
             a2 == IF ~Truthy(a1.has_brew_equivalent)
                   THEN SearchCatalog(a1, casks)
                   ELSE a1
         IN  IF ~Truthy(a2.has_brew_equivalent)
             THEN [a2 EXCEPT !.has_brew_equivalent = Some(FALSE)]
             ELSE a2

\* Variant: without the guard `if not app.is_brew`
CheckApp_NoOwnedGuard(app, casks, formulae) ==
    LET a1 == SearchCatalog(app, casks)
        a2 == IF ~Truthy(a1.has_brew_equivalent)
              THEN SearchCatalog(a1, formulae)
              ELSE a1
    IN  IF ~Truthy(a2.has_brew_equivalent)
        THEN [a2 EXCEPT !.has_brew_equivalent = Some(FALSE)]
        ELSE a2

\* The body of the outer loop of check_brew_equivalents for one record
CheckApp(app, casks, formulae) ==
    IF app.is_brew
    THEN app
    ELSE LET a1 == SearchCatalog(app, casks)
             a2 == IF ~Truthy(a1.has_brew_equivalent)
                   THEN SearchCatalog(a1, formulae)
                   ELSE a1
         IN  IF ~Truthy(a2.has_brew_equivalent)
             THEN [a2 EXCEPT !.has_brew_equivalent = Some(FALSE)]
             ELSE a2

-----------------------------------------------------------------------------
(* Counts *)

\* Variant: the list comprehension without its condition
brew_apps_Unfiltered(apps) == apps

brew_apps(apps) == SelectSeq(apps, LAMBDA a : a.is_brew)

non_brew_apps(apps) == SelectSeq(apps, LAMBDA a : ~a.is_brew)

\* [app for app in non_brew_apps if app.has_brew_equivalent]
with_equivalent(apps) == SelectSeq(apps, LAMBDA a : Truthy(a.has_brew_equivalent))

\* [app for app in apps if not app.is_brew and app.has_brew_equivalent]
has_equivalent(apps) ==
    SelectSeq(apps, LAMBDA a : ~a.is_brew /\ Truthy(a.has_brew_equivalent))

\* What show_summary prints
SummaryOf(apps) ==
    [total |-> Len(apps),
     brew_managed |-> Len(brew_apps(apps)),
     non_brew |-> Len(non_brew_apps(apps)),
     has_brew_equivalent |-> Len(with_equivalent(non_brew_apps(apps))),
     listed |-> [k \in 1..Len(with_equivalent(non_brew_apps(apps))) |->
                    <<with_equivalent(non_brew_apps(apps))[k].name,
                      with_equivalent(non_brew_apps(apps))[k].brew_equivalent>>]]

\* The dictionary export_to_json builds (the timestamp is the clock's)
ExportOf(apps) ==
    [total_apps |-> Len(apps),
     brew_managed |-> Len(brew_apps(apps)),
     has_brew_equivalent |-> Len(has_equivalent(apps)),
     applications |-> [k \in 1..Len(apps) |->
                          [name |-> apps[k].name,
                           path |-> apps[k].path,
                           is_brew |-> apps[k].is_brew,
                           brew_type |-> apps[k].brew_type,
                           has_brew_equivalent |-> apps[k].has_brew_equivalent,
                           brew_equivalent |-> apps[k].brew_equivalent]]]

-----------------------------------------------------------------------------
(* json.dump(export_data, f, indent=2): the text written, as its sequence  *)
(* of JSON tokens (the white space of the indentation is between tokens).  *)
(* A token is a punctuation mark, a literal, a number with its digits or a *)
(* string with its escaped characters.                                     *)
Punct(c) == [t |-> "punct", v |-> <<c>>]
Literal(w) == [t |-> "literal", v |-> <<w>>]

\* The encoder's escaping of the quote and the backslash
RECURSIVE Escape(_)

\* Variant: the characters are written as they are
Escape_Raw(s) == s

Escape(s) ==
    IF s = <<>> THEN <<>>
    ELSE (IF Head(s) \in {"\"", "\\"} THEN <<"\\", Head(s)>> ELSE <<Head(s)>>)
             \o Escape(Tail(s))

\* The decimal digits of a natural number
Digits == <<"0", "1", "2", "3", "4", "5", "6", "7", "8", "9">>

RECURSIVE IntText(_)
IntText(n) ==
    IF n < 10 THEN <<Digits[n + 1]>>
    ELSE IntText(n \div 10) \o <<Digits[(n % 10) + 1]>>

\* The encoding of a str, an int, a bool, and of an Optional of these
dump_str(x) == [t |-> "string", v |-> Escape(x)]
dump_int(n) == [t |-> "number", v |-> IntText(n)]
dump_bool(b) == Literal(IF b THEN "true" ELSE "false")
dump_optional_str(opt) == IF opt = None THEN Literal("null") ELSE dump_str(opt[1])
dump_optional_bool(opt) == IF opt = None THEN Literal("null") ELSE dump_bool(opt[1])

\* A key of a dictionary with its colon
dump_key(k) == <<[t |-> "string", v |-> <<k>>], Punct(":")>>

\* One dictionary of apps_data
dump_app(a) ==
    <<Punct("{")>>
        \o dump_key("name") \o <<dump_str(a.name), Punct(",")>>
        \o dump_key("path") \o <<dump_str(a.path), Punct(",")>>
        \o dump_key("is_brew") \o <<dump_bool(a.is_brew), Punct(",")>>
        \o dump_key("brew_type")
        \o <<IF a.brew_type = None THEN Literal("null")
             ELSE [t |-> "string", v |-> a.brew_type], Punct(",")>>
        \o dump_key("has_brew_equivalent")
        \o <<dump_optional_bool(a.has_brew_equivalent), Punct(",")>>
        \o dump_key("brew_equivalent")
        \o <<dump_optional_str(a.brew_equivalent), Punct("}")>>

\* The elements of a list, separated by commas
RECURSIVE dump_apps(_)
dump_apps(apps) ==
    IF apps = <<>> THEN <<>>
    ELSE IF Len(apps) = 1 THEN dump_app(apps[1])
    ELSE dump_app(apps[1]) \o <<Punct(",")>> \o dump_apps(Tail(apps))

\* The whole of export_data (without the timestamp, as in ExportOf)
json_dump(data) ==
    <<Punct("{")>>
        \o dump_key("total_apps") \o <<dump_int(data.total_apps), Punct(",")>>
        \o dump_key("brew_managed") \o <<dump_int(data.brew_managed), Punct(",")>>
        \o dump_key("has_brew_equivalent")
        \o <<dump_int(data.has_brew_equivalent), Punct(",")>>
        \o dump_key("applications")
        \o <<Punct("[")>> \o dump_apps(data.applications) \o <<Punct("]")>>
        \o <<Punct("}")>>

-----------------------------------------------------------------------------
\* The list browse_applications shows for a menu choice
Filtered(apps, filter_type) ==
    IF filter_type = 2 THEN apps
    ELSE IF filter_type = 3 THEN brew_apps(apps)
    ELSE IF filter_type = 4 THEN non_brew_apps(apps)
    ELSE has_equivalent(apps)

-----------------------------------------------------------------------------
(* The environment *)

\* Sequences over S of length at most n without repetition
DistinctSeqs(S, n) ==
    {q \in UNION {[1..k -> S] : k \in 0..n} :
        \A x, y \in 1..Len(q) : x # y => q[x] # q[y]}

\* set(result.stdout.strip().split('\n')): strip() removes blank lines at both
\* ends of the output, so an empty name comes from a blank line between two
\* printed names (which may be the same name: 'b\n\nb' gives {'b', ''}) and is
\* never the only element of the set
Parsable(catalog) ==
    (\E k \in 1..Len(catalog) : catalog[k] = <<>>) => Len(catalog) >= 2

\* Entries a directory can hold on platform p: applications, and one other file
Items(p) ==
    {[stem |-> st, ext |-> AppExt(p)] : st \in AppStems}
        \cup {[stem |-> <<"c">>, ext |-> "txt"]}

\* The directories run_scan lists on platform p; it lists none on a platform
\* that is neither darwin nor linux
ScanDirs(p) ==
    IF p = "darwin" THEN app_dirs ELSE IF p = "linux" THEN desktop_dirs ELSE <<>>

\* The number of entries of a directory, none when it does not exist
Held(dir) == IF dir = None THEN 0 ELSE Len(dir[1])

RECURSIVE TotalHeld(_)
TotalHeld(fs) == IF fs = <<>> THEN 0 ELSE Held(Head(fs)) + TotalHeld(Tail(fs))

\* What the directories `dirs` can hold: each one does not exist or holds
\* entries of S, no name twice in one directory, at most n entries together
Filesystems(dirs, S, n) ==
    {fs \in [1..Len(dirs) -> {None} \cup {Some(l) : l \in DistinctSeqs(S, n)}] :
        TotalHeld(fs) <= n}

\* A directory that exists holds an entry
NoEmptyDir(fs) == \A d \in 1..Len(fs) : fs[d] # Some(<<>>)

Init ==
    /\ platform \in Platforms
    /\ fs_items \in Filesystems(ScanDirs(platform), Items(platform), MaxApps)
    /\ NoEmptyDir(fs_items)
    /\ listed_formulae \in DistinctSeqs(CatalogNames, MaxPackages)
    /\ listed_casks \in DistinctSeqs(CatalogNames, MaxPackages)
    /\ Len(listed_formulae) + Len(listed_casks) <= MaxPackages
    /\ brew_status = NotRun
    /\ brew_formulae = <<>>
    /\ brew_casks = <<>>
    /\ installed_apps = <<>>
    /\ pc = "menu"
    /\ idx = 0
    /\ summary = None
    /\ export_data = None
    /\ written = None
    /\ view = None

\* One application of any raw name, alone in /Applications, listed there
\* before another one, or in ~/Applications with another one in
\* /System/Applications; a catalog of at most one name on either side
InitNames ==
    /\ platform = "darwin"
    /\ listed_formulae \in {<<>>, << <<"a", "-", "A">> >>}
    /\ listed_casks \in {<<>>, << <<"A", "a">> >>}
    /\ \E n \in RawNames(MaxNameLen) :
          LET named == [stem |-> n, ext |-> "app"]
              other == [stem |-> <<"a">>, ext |-> "app"]
          IN  fs_items \in {<<Some(<<named>>), None, None>>,
                            <<Some(<<named, other>>), None, None>>,
                            <<None, Some(<<other>>), Some(<<named>>)>>}
    /\ brew_status = NotRun
    /\ brew_formulae = <<>>
    /\ brew_casks = <<>>
    /\ installed_apps = <<>>
    /\ pc = "menu"
    /\ idx = 0
    /\ summary = None
    /\ export_data = None
    /\ written = None
    /\ view = None

\* The names of the worked scenario
Name_git == <<"g", "i", "t">>
Name_htop == <<"h", "t", "o", "p">>
Name_vscode == <<"v", "i", "s", "u", "a", "l", "-", "s", "t", "u", "d", "i", "o", "-", "c", "o", "d", "e">>
Name_Git == <<"G", "i", "t">>
Name_Code == <<"C", "o", "d", "e">>
Name_RandomTool == <<"R", "a", "n", "d", "o", "m", "T", "o", "o", "l">>

\* The entries of the scenario in the order they are visited: the three
\* bundles, with or without one entry that is not a bundle somewhere among
\* them
ScenarioListings ==
    LET bundles == <<[stem |-> Name_Git, ext |-> "app"],
                     [stem |-> Name_Code, ext |-> "app"],
                     [stem |-> Name_RandomTool, ext |-> "app"]>>
        other == [stem |-> Name_htop, ext |-> "txt"]
    IN  {bundles} \cup
        {SubSeq(bundles, 1, k) \o <<other>> \o SubSeq(bundles, k + 1, 3) :
            k \in 0..3}

\* The ways a listing is spread over the three directories of app_dirs
\* without changing the order of the visit; a directory left without an
\* entry exists or not
Spread(listing) ==
    {fs \in [1..Len(app_dirs) ->
                {None} \cup {Some(SubSeq(listing, i, j)) :
                                i \in 1..(Len(listing) + 1), j \in 0..Len(listing)}] :
        LET visited == Visited(app_dirs, fs)
        IN  [k \in 1..Len(visited) |-> visited[k].item] = listing}

\* The scenario: formulae {git, htop} in either iteration order, casks
\* {visual-studio-code}, on macOS
InitScenario ==
    /\ platform = "darwin"
    /\ listed_formulae \in {<<Name_git, Name_htop>>, <<Name_htop, Name_git>>}
    /\ listed_casks = <<Name_vscode>>
    /\ \E listing \in ScenarioListings : fs_items \in Spread(listing)
    /\ brew_status = NotRun
    /\ brew_formulae = <<>>
    /\ brew_casks = <<>>
    /\ installed_apps = <<>>
    /\ pc = "menu"
    /\ idx = 0
    /\ summary = None
    /\ export_data = None
    /\ written = None
    /\ view = None

\* Catalogs of at most MaxPackages names each, a blank line of the output
\* among them, and applications of which one may be named by its suffix
\* alone
InitBlank ==
    /\ platform \in {"darwin", "linux"}
    /\ fs_items \in
          Filesystems(ScanDirs(platform),
                      {[stem |-> st, ext |-> AppExt(platform)] :
                          st \in {<<>>, <<"a">>, <<"b">>}}, MaxApps)
    /\ NoEmptyDir(fs_items)
    /\ listed_formulae \in DistinctSeqs({<<>>, <<"b">>}, MaxPackages)
    /\ listed_casks \in DistinctSeqs({<<>>, <<"b">>}, MaxPackages)
    /\ Len(listed_formulae) + Len(listed_casks) <= MaxPackages + 1
    /\ Parsable(listed_formulae)
    /\ Parsable(listed_casks)
    /\ brew_status = NotRun
    /\ brew_formulae = <<>>
    /\ brew_casks = <<>>
    /\ installed_apps = <<>>
    /\ pc = "menu"
    /\ idx = 0
    /\ summary = None
    /\ export_data = None
    /\ written = None
    /\ view = None

\* Another formula whose name contains the key of Git
Name_gitlfs == <<"g", "i", "t", "-", "l", "f", "s">>

\* One application, Git or Code, in one of the directories of the platform
\* (the others do not exist), and catalogs of at most MaxPackages of four
\* package names each (MaxPackages + 1 together), in every iteration order
InitOrders ==
    /\ platform \in {"darwin", "linux"}
    /\ listed_formulae \in
          DistinctSeqs({Name_git, Name_htop, Name_gitlfs, Name_vscode}, MaxPackages)
    /\ listed_casks \in
          DistinctSeqs({Name_git, Name_htop, Name_gitlfs, Name_vscode}, MaxPackages)
    /\ Len(listed_formulae) + Len(listed_casks) <= MaxPackages + 1
    /\ \E n \in {Name_Git, Name_Code} :
          /\ fs_items \in
                Filesystems(ScanDirs(platform), {[stem |-> n, ext |-> AppExt(platform)]}, 1)
          /\ TotalHeld(fs_items) = 1
          /\ NoEmptyDir(fs_items)
    /\ brew_status = NotRun
    /\ brew_formulae = <<>>
    /\ brew_casks = <<>>
    /\ installed_apps = <<>>
    /\ pc = "menu"
    /\ idx = 0
    /\ summary = None
    /\ export_data = None
    /\ written = None
    /\ view = None

-----------------------------------------------------------------------------
(* run_scan, in the order of its calls *)

\* Variant: the failure is handled like the cask failure, with an empty set
FormulaFetchFails_EmptySet ==
    /\ pc = "menu"
    /\ brew_status' = Status("failed", "none")
    /\ brew_formulae' = <<>>
    /\ pc' = "packages"
    /\ UNCHANGED <<env, brew_casks, installed_apps, idx, summary, export_data,
                   view, written>>

\* Variant: the failure empties both stored catalogs before returning False
FormulaFetchFails_ClearsCatalogs ==
    /\ pc = "menu"
    /\ brew_status' = Status("failed", "none")
    /\ brew_formulae' = <<>>
    /\ brew_casks' = <<>>
    /\ pc' = "failed"
    /\ UNCHANGED <<env, installed_apps, idx, summary, export_data, view, written>>

\* get_brew_packages when `brew list --formula` fails: nothing is assigned,
\* run_scan returns False
FormulaFetchFails ==
    /\ pc = "menu"
    /\ brew_status' = Status("failed", "none")
    /\ pc' = "failed"
    /\ UNCHANGED <<env, brew_formulae, brew_casks, installed_apps, idx,
                   summary, export_data, view, written>>

\* get_brew_packages when `brew list --formula` succeeds: brew_formulae is
\* assigned and `brew list --cask` is started; brew_casks is still the set
\* of the scan before
FetchFormulae ==
    /\ pc = "menu"
    /\ brew_status' = Status("ok", "none")
    /\ brew_formulae' = listed_formulae
    /\ pc' = "casks"
    /\ UNCHANGED <<env, brew_casks, installed_apps, idx, summary, export_data, view,
                   written>>

\* get_brew_packages when `brew list --cask` succeeds too
FetchCasks ==
    /\ pc = "casks"
    /\ brew_status' = Status("ok", "ok")
    /\ brew_casks' = listed_casks
    /\ pc' = "packages"
    /\ UNCHANGED <<env, brew_formulae, installed_apps, idx, summary, export_data, view,
                   written>>

\* Variant: the cask failure is not caught apart and the listing is kept
CaskFetchFails_KeepsListing ==
    /\ pc = "casks"
    /\ brew_status' = Status("ok", "failed")
    /\ brew_casks' = listed_casks
    /\ pc' = "packages"
    /\ UNCHANGED <<env, brew_formulae, installed_apps, idx, summary, export_data, view,
                   written>>

\* get_brew_packages when `brew list --cask` fails: the inner except
CaskFetchFails ==
    /\ pc = "casks"
    /\ brew_status' = Status("ok", "failed")
    /\ brew_casks' = <<>>
    /\ pc' = "packages"
    /\ UNCHANGED <<env, brew_formulae, installed_apps, idx, summary, export_data, view,
                   written>>

get_brew_packages == FormulaFetchFails \/ FetchFormulae \/ FetchCasks \/ CaskFetchFails

\* Variant: run_scan lists the applications without calling get_brew_packages
GetApplications_BeforeFetch ==
    /\ pc = "menu"
    /\ IF platform = "darwin"
       THEN /\ installed_apps' = get_applications_macos(fs_items, brew_casks)
            /\ pc' = "check"
            /\ idx' = 1
       ELSE IF platform = "linux"
       THEN /\ installed_apps' = get_applications_linux(fs_items, brew_formulae)
            /\ pc' = "check"
            /\ idx' = 1
       ELSE /\ pc' = "failed"
            /\ UNCHANGED <<installed_apps, idx>>
    /\ UNCHANGED <<env, brew_status, brew_formulae, brew_casks, summary,
                   export_data, view, written>>

\* run_scan after get_brew_packages returned True: the platform branch
GetApplications ==
    /\ pc = "packages"
    /\ IF platform = "darwin"
       THEN /\ installed_apps' = get_applications_macos(fs_items, brew_casks)
            /\ pc' = "check"
            /\ idx' = 1
       ELSE IF platform = "linux"
       THEN /\ installed_apps' = get_applications_linux(fs_items, brew_formulae)
            /\ pc' = "check"
            /\ idx' = 1
       ELSE /\ pc' = "failed"
            /\ UNCHANGED <<installed_apps, idx>>
    /\ UNCHANGED <<env, brew_status, brew_formulae, brew_casks, summary, export_data, view,
                   written>>

\* Variant: the outcome of the previous iteration is carried into the next
CheckNext_CarriesOver ==
    /\ pc = "check"
    /\ idx <= Len(installed_apps)
    /\ installed_apps' =
           [installed_apps EXCEPT ![idx] =
               IF /\ idx > 1
                  /\ ~@.is_brew
                  /\ Truthy(installed_apps[idx - 1].has_brew_equivalent)
               THEN [@ EXCEPT !.has_brew_equivalent = Some(TRUE),
                              !.brew_equivalent =
                                  installed_apps[idx - 1].brew_equivalent]
               ELSE CheckApp(@, brew_casks, brew_formulae)]
    /\ idx' = idx + 1
    /\ UNCHANGED <<env, brew_status, brew_formulae, brew_casks, pc, summary, export_data, view,
                   written>>

\* check_brew_equivalents: one iteration of `for app in apps`, up to its
\* first assignment.  An owned record is passed over and a record nothing
\* matches gets its one assignment, has_brew_equivalent = False, which ends
\* the iteration.  When an entry passes, `app.has_brew_equivalent = True` is
\* executed and the name is still to be assigned
CheckNext ==
    /\ pc = "check"
    /\ idx <= Len(installed_apps)
    /\ LET checked == CheckApp(installed_apps[idx], brew_casks, brew_formulae)
       IN  IF Truthy(checked.has_brew_equivalent)
           THEN /\ installed_apps' =
                       [installed_apps EXCEPT ![idx].has_brew_equivalent = Some(TRUE)]
                /\ pc' = "found"
                /\ idx' = idx
           ELSE /\ installed_apps' = [installed_apps EXCEPT ![idx] = checked]
                /\ pc' = "check"
                /\ idx' = idx + 1
    /\ UNCHANGED <<env, brew_status, brew_formulae, brew_casks, summary, export_data, view,
                   written>>

\* `app.brew_equivalent = cask` (or `= formula`) and `break`: the statement
\* after `app.has_brew_equivalent = True`, which ends the iteration.  The
\* entry is the one the loop stands at, the first passing one of the
\* catalog searched
StoreEquivalent ==
    /\ pc = "found"
    /\ installed_apps' =
           [installed_apps EXCEPT ![idx] =
               CheckApp([@ EXCEPT !.has_brew_equivalent = None],
                        brew_casks, brew_formulae)]
    /\ pc' = "check"
    /\ idx' = idx + 1
    /\ UNCHANGED <<env, brew_status, brew_formulae, brew_casks, summary, export_data, view,
                   written>>

\* check_brew_equivalents returns, run_scan returns True
ScanCompleted ==
    /\ pc = "check"
    /\ idx > Len(installed_apps)
    /\ pc' = "completed"
    /\ idx' = 0
    /\ UNCHANGED <<env, brew_status, brew_formulae, brew_casks, installed_apps, summary,
                   export_data, view, written>>

-----------------------------------------------------------------------------
(* The other menu choices *)

\* `if self.installed_apps:`, the guard of the summary, browse and export
\* choices: the truthiness of the record list
has_scan_data(apps) == apps # <<>>

\* choice 1 with scan data
show_summary ==
    /\ pc = "menu"
    /\ has_scan_data(installed_apps)
    /\ summary' = Some(SummaryOf(installed_apps))
    /\ pc' = "summary"
    /\ UNCHANGED <<env, brew_status, brew_formulae, brew_casks, installed_apps, idx,
                   export_data, view, written>>

\* Variant: the filtered list is assigned to self.installed_apps
browse_applications_AssignsFilter ==
    /\ pc = "menu"
    /\ has_scan_data(installed_apps)
    /\ \E filter_type \in 2..5 :
          /\ Filtered(installed_apps, filter_type) # <<>>
          /\ view' = Some(Filtered(installed_apps, filter_type))
          /\ installed_apps' = Filtered(installed_apps, filter_type)
    /\ pc' = "browse"
    /\ UNCHANGED <<env, brew_status, brew_formulae, brew_casks, idx, summary,
                   export_data, written>>

\* choices 2..5 with scan data and a non-empty filtered list
browse_applications ==
    /\ pc = "menu"
    /\ has_scan_data(installed_apps)
    /\ \E filter_type \in 2..5 :
          /\ Filtered(installed_apps, filter_type) # <<>>
          /\ view' = Some(Filtered(installed_apps, filter_type))
    /\ pc' = "browse"
    /\ UNCHANGED <<env, brew_status, brew_formulae, brew_casks, installed_apps, idx,
                   summary, export_data, written>>

\* choice 6 with scan data: the dictionary is built and dumped to a new
\* file.  The dump returns and the file holds the whole text; or open raises
\* and there is no file; or a write raises and the file keeps what was
\* written before, the first k tokens of the text (explored for k up to
\* MaxWritten).  `except Exception` prints the error of the last two cases
\* and the handler goes on to its sleep and returns as after a success
export_to_json ==
    /\ pc = "menu"
    /\ has_scan_data(installed_apps)
    /\ export_data' = Some(ExportOf(installed_apps))
    /\ LET text == json_dump(ExportOf(installed_apps))
       IN  \/ written' = Some(text)
           \/ written' = None
           \/ \E k \in 0..MaxWritten :
                  /\ k < Len(text)
                  /\ written' = Some(SubSeq(text, 1, k))
    /\ pc' = "export"
    /\ UNCHANGED <<env, brew_status, brew_formulae, brew_casks, installed_apps, idx,
                   summary, view>>

\* choices 1..6 without scan data, and a filter that selects nothing
NothingToShow ==
    /\ pc = "menu"
    /\ \/ ~has_scan_data(installed_apps)
       \/ \E filter_type \in 2..5 : Filtered(installed_apps, filter_type) = <<>>
    /\ pc' = "notice"
    /\ UNCHANGED <<env, brew_status, brew_formulae, brew_casks, installed_apps, idx,
                   summary, export_data, view, written>>

\* The handler returns and the menu is drawn again on a cleared screen;
\* the handler's locals are gone
BackToMenu ==
    /\ pc \in {"failed", "completed", "summary", "browse", "export", "notice"}
    /\ pc' = "menu"
    /\ brew_status' = NotRun
    /\ summary' = None
    /\ export_data' = None
    /\ view' = None
    /\ written' = None
    /\ UNCHANGED <<env, brew_formulae, brew_casks, installed_apps, idx>>

\* choice 7 or Esc
Exit ==
    /\ pc = "menu"
    /\ pc' = "exit"
    /\ UNCHANGED <<env, brew_status, brew_formulae, brew_casks, installed_apps, idx,
                   summary, export_data, view, written>>

\* Variant: the interrupt is caught inside the menu loop, which goes on
Interrupted_CaughtInMenu ==
    /\ pc \notin {"menu", "exit"}
    /\ pc' = "menu"
    /\ idx' = 0
    /\ brew_status' = NotRun
    /\ summary' = None
    /\ export_data' = None
    /\ view' = None
    /\ written' = None
    /\ UNCHANGED <<env, brew_formulae, brew_casks, installed_apps>>

\* main: KeyboardInterrupt (or any other exception) raised inside a handler
\* unwinds main_menu and ends the program; the fields are left as they are
Interrupted ==
    /\ pc \notin {"menu", "exit"}
    /\ pc' = "exit"
    /\ idx' = 0
    /\ brew_status' = NotRun
    /\ summary' = None
    /\ export_data' = None
    /\ view' = None
    /\ written' = None
    /\ UNCHANGED <<env, brew_formulae, brew_casks, installed_apps>>

Next ==
    \/ FormulaFetchFails
    \/ FetchFormulae
    \/ FetchCasks
    \/ CaskFetchFails
    \/ GetApplications
    \/ CheckNext
    \/ StoreEquivalent
    \/ ScanCompleted
    \/ show_summary
    \/ browse_applications
    \/ export_to_json
    \/ NothingToShow
    \/ BackToMenu
    \/ Interrupted
    \/ Exit

Spec == Init /\ [][Next]_vars

\* The same program scanning one application of an arbitrary raw name
SpecNames == InitNames /\ [][Next]_vars

\* The same program in the environment of the worked scenario
SpecScenario == InitScenario /\ [][Next]_vars

\* The same program with one application and catalogs in every order
SpecOrders == InitOrders /\ [][Next]_vars

\* The same program with blank catalog entries and a nameless application
SpecBlank == InitBlank /\ [][Next]_vars

-----------------------------------------------------------------------------
(* Vocabulary of the properties *)

\* The entries of a catalog
Entries(catalog) == {catalog[k] : k \in 1..Len(catalog)}

\* The catalog of the category the platform's applications originate from
OriginCatalog ==
    IF platform = "darwin" THEN brew_casks
    ELSE IF platform = "linux" THEN brew_formulae
    ELSE <<>>

\* The records exist and were created from the catalogs now stored
FirstPassDone == pc \in {"check", "found", "completed"}

\* Record k has been through the second pass of the current scan
SecondPassDone(k) == (pc \in {"check", "found"} /\ k < idx) \/ pc = "completed"

\* The three ownership tests of Stage 1, on lowercase names
OwnershipTest(entry, name) ==
    \/ lower(entry) = lower(name)
    \/ remove(lower(entry), "-") = remove(lower(name), "-")
    \/ remove(lower(entry), "-") = remove(lower(name), " ")

\* The four equivalence tests of Stage 2 against the app key
EquivalenceTest(entry, name) ==
    LET key == replace(lower(name), " ", "-")
        cat == lower(entry)
    IN  \/ cat = key
        \/ remove(cat, "-") = remove(key, "-")
        \/ \E k \in 0..Len(cat) :
              k + Len(key) <= Len(cat) /\ SubSeq(cat, k + 1, k + Len(key)) = key
        \/ \E k \in 0..Len(key) :
              k + Len(cat) <= Len(key) /\ SubSeq(key, k + 1, k + Len(cat)) = cat

-----------------------------------------------------------------------------
(* C1: a record is created manager-owned exactly when some entry of the    *)
(* catalog of its origin category passes one of the three ownership tests, *)
(* for cask-origin and for formula-origin applications alike.              *)
C1_OwnedIffAnyOfThreeTests ==
    FirstPassDone =>
        \A k \in 1..Len(installed_apps) :
            installed_apps[k].is_brew <=>
                \E e \in Entries(OriginCatalog) :
                    OwnershipTest(e, installed_apps[k].name)

(* C2: after the second pass a non-owned record has an equivalent exactly  *)
(* when some cask or formula passes one of the four equivalence tests; the *)
(* named equivalent is such an entry; without one the answer is no and the *)
(* name stays unset.                                                       *)
C2_EquivalentIffSomeEntryMatches ==
    \A k \in 1..Len(installed_apps) :
        (SecondPassDone(k) /\ ~installed_apps[k].is_brew) =>
            LET app == installed_apps[k]
                matching == {e \in Entries(brew_casks) \cup Entries(brew_formulae) :
                                EquivalenceTest(e, app.name)}
            IN  /\ app.has_brew_equivalent = Some(TRUE) <=> matching # {}
                /\ matching # {} => app.brew_equivalent \in {Some(e) : e \in matching}
                /\ matching = {} => /\ app.has_brew_equivalent = Some(FALSE)
                                    /\ app.brew_equivalent = None

C2_Witness ==
    /\ pc = "completed"
    /\ \E k \in 1..Len(installed_apps) :
          /\ ~installed_apps[k].is_brew
          /\ installed_apps[k].has_brew_equivalent = Some(TRUE)
          /\ installed_apps[k].brew_equivalent # Some(lower(installed_apps[k].name))
    /\ \E k \in 1..Len(installed_apps) :
          /\ ~installed_apps[k].is_brew
          /\ installed_apps[k].has_brew_equivalent = Some(FALSE)
          /\ brew_casks # <<>>
          /\ brew_formulae # <<>>

(* C3: when some cask passes an equivalence test the chosen equivalent is  *)
(* a passing cask, whatever the formulae hold; a formula is chosen only    *)
(* when no cask passes.                                                    *)
C3_CaskBeforeFormula ==
    \A k \in 1..Len(installed_apps) :
        (SecondPassDone(k) /\ ~installed_apps[k].is_brew) =>
            LET app == installed_apps[k]
                casks == {e \in Entries(brew_casks) : EquivalenceTest(e, app.name)}
                formulae == {e \in Entries(brew_formulae) : EquivalenceTest(e, app.name)}
            IN  /\ casks # {} => app.brew_equivalent \in {Some(e) : e \in casks}
                /\ app.brew_equivalent \in {Some(e) : e \in formulae \ Entries(brew_casks)}
                       => casks = {}

C3_Witness ==
    /\ pc = "completed"
    /\ \E k \in 1..Len(installed_apps) :
          LET app == installed_apps[k]
          IN  /\ ~app.is_brew
              /\ \E c \in Entries(brew_casks), f \in Entries(brew_formulae) :
                    /\ c # f
                    /\ EquivalenceTest(c, app.name)
                    /\ EquivalenceTest(f, app.name)
                    /\ app.brew_equivalent = Some(c)

(* C4: an application whose name equals, ignoring case, an entry of the    *)
(* catalog of its own origin category is manager-owned and carries no      *)
(* equivalent name, during and after both passes.                          *)
C4_ExactNameIsOwned ==
    FirstPassDone =>
        \A k \in 1..Len(installed_apps) :
            (\E e \in Entries(OriginCatalog) :
                lower(e) = lower(installed_apps[k].name))
            => /\ installed_apps[k].is_brew
               /\ installed_apps[k].brew_equivalent = None

C4_Witness ==
    /\ pc = "completed"
    /\ \E k \in 1..Len(installed_apps) :
          /\ \E e \in Entries(OriginCatalog) :
                /\ lower(e) = lower(installed_apps[k].name)
                /\ e # installed_apps[k].name
          /\ installed_apps[k].is_brew

(* C5: in every state no record is both manager-owned and carrying an    *)
(* equivalent: the second pass leaves an owned record's has_brew_equivalent*)
(* unevaluated and its brew_equivalent unset.                              *)
C5_OwnedHasNoEquivalent ==
    \A k \in 1..Len(installed_apps) :
        installed_apps[k].is_brew =>
            /\ installed_apps[k].has_brew_equivalent = None
            /\ installed_apps[k].brew_equivalent = None

C5_Witness ==
    /\ pc = "completed"
    /\ \E k \in 1..Len(installed_apps) :
          /\ installed_apps[k].is_brew
          /\ \E e \in Entries(brew_casks) \cup Entries(brew_formulae) :
                EquivalenceTest(e, installed_apps[k].name)

(* C6: in every state brew_type is set exactly for the records with        *)
(* is_brew true, and a set brew_type is 'cask' or 'formula'.               *)
C6_TypeSetIffOwned ==
    \A k \in 1..Len(installed_apps) :
        /\ installed_apps[k].brew_type # None <=> installed_apps[k].is_brew
        /\ installed_apps[k].brew_type \in {None, Some("cask"), Some("formula")}

C6_Witness ==
    /\ pc = "menu"
    /\ \E k, j \in 1..Len(installed_apps) :
          /\ installed_apps[k].is_brew
          /\ installed_apps[k].brew_type \in {Some("cask"), Some("formula")}
          /\ ~installed_apps[j].is_brew
          /\ installed_apps[j].brew_type = None

(* C7: while the program runs, brew_equivalent is set exactly for the       *)
(* records whose has_brew_equivalent is True, and is unset when that is     *)
(* False or None, for every stored record but the one the second pass has   *)
(* flagged and not yet named: between `app.has_brew_equivalent = True` and  *)
(* `app.brew_equivalent = cask` that record has the flag without the name,  *)
(* and it keeps them so when the program is interrupted there.              *)
NameSetIffHasEquivalent(app) ==
    app.brew_equivalent # None <=> app.has_brew_equivalent = Some(TRUE)

\* As stated: in every reachable state, for every stored record
C7_NameSetIffHasEquivalent ==
    \A k \in 1..Len(installed_apps) : NameSetIffHasEquivalent(installed_apps[k])

\* Amended: outside the two assignments
C7_NameSetOutsideAssignment ==
    /\ pc # "exit" =>
          \A k \in 1..Len(installed_apps) :
              (pc = "found" /\ k = idx) \/ NameSetIffHasEquivalent(installed_apps[k])
    /\ pc = "found" =>
          /\ installed_apps[idx].has_brew_equivalent = Some(TRUE)
          /\ installed_apps[idx].brew_equivalent = None

C7_Witness ==
    /\ pc = "found"
    /\ idx = 2
    /\ installed_apps[1].has_brew_equivalent = Some(FALSE)
    /\ installed_apps[1].brew_equivalent = None
    /\ installed_apps[2].has_brew_equivalent = Some(TRUE)
    /\ installed_apps[2].brew_equivalent = None

(* C8: the named equivalent is the earliest passing entry, in iteration    *)
(* order, of the catalog that was searched: the casks when a cask passes,  *)
(* otherwise the formulae.                                                 *)
C8_FirstMatchInIterationOrder ==
    \A k \in 1..Len(installed_apps) :
        (/\ SecondPassDone(k)
         /\ ~installed_apps[k].is_brew
         /\ installed_apps[k].has_brew_equivalent = Some(TRUE)) =>
            LET app == installed_apps[k]
                searched ==
                    IF \E e \in Entries(brew_casks) : EquivalenceTest(e, app.name)
                    THEN brew_casks
                    ELSE brew_formulae
            IN  \E j \in 1..Len(searched) :
                    /\ app.brew_equivalent = Some(searched[j])
                    /\ EquivalenceTest(searched[j], app.name)
                    /\ \A i \in 1..(j - 1) : ~EquivalenceTest(searched[i], app.name)

C8_Witness ==
    /\ pc = "completed"
    /\ \E k \in 1..Len(installed_apps) :
          \E catalog \in {brew_casks, brew_formulae} :
              /\ Len(catalog) >= 2
              /\ ~installed_apps[k].is_brew
              /\ EquivalenceTest(catalog[1], installed_apps[k].name)
              /\ EquivalenceTest(catalog[2], installed_apps[k].name)
              /\ installed_apps[k].brew_equivalent = Some(catalog[1])

(* C9: the counts show_summary prints and export_to_json writes: the total *)
(* is the number of records and is owned + non-owned, brew_managed is the  *)
(* number of owned records, has_brew_equivalent is the number of non-owned *)
(* records with an equivalent and is at most the number of non-owned.      *)
NumOwned == Cardinality({k \in 1..Len(installed_apps) : installed_apps[k].is_brew})

NumNonOwned == Cardinality({k \in 1..Len(installed_apps) : ~installed_apps[k].is_brew})

NumWithEquivalent ==
    Cardinality({k \in 1..Len(installed_apps) :
                    /\ ~installed_apps[k].is_brew
                    /\ installed_apps[k].has_brew_equivalent = Some(TRUE)})

C9_CountsAgree ==
    /\ pc = "summary" =>
          /\ summary # None
          /\ summary[1].total = Len(installed_apps)
          /\ summary[1].total = NumOwned + NumNonOwned
          /\ summary[1].brew_managed = NumOwned
          /\ summary[1].non_brew = NumNonOwned
          /\ summary[1].has_brew_equivalent = NumWithEquivalent
          /\ summary[1].has_brew_equivalent <= NumNonOwned
    /\ pc = "export" =>
          /\ export_data # None
          /\ export_data[1].total_apps = Len(installed_apps)
          /\ export_data[1].total_apps = NumOwned + NumNonOwned
          /\ export_data[1].brew_managed = NumOwned
          /\ export_data[1].has_brew_equivalent = NumWithEquivalent
          /\ export_data[1].has_brew_equivalent <= NumNonOwned

C9_Witness ==
    /\ pc = "summary"
    /\ summary[1].total = 2
    /\ summary[1].brew_managed = 1
    /\ summary[1].has_brew_equivalent = 1
    /\ brew_casks = <<>>
    /\ listed_casks # <<>>

(* C10: no record is dropped or reordered: the records, and the            *)
(* 'applications' of an export, are one per discovered application in      *)
(* discovery order, and a step of the second pass changes nothing but      *)
(* has_brew_equivalent and brew_equivalent.                                *)
Discovered ==
    SelectSeq(Visited(ScanDirs(platform), fs_items),
              LAMBDA e : e.item.ext = AppExt(platform))

OnePerDiscovered(list) ==
    /\ Len(list) = Len(Discovered)
    /\ \A k \in 1..Len(list) :
          /\ list[k].name = Discovered[k].item.stem
          /\ list[k].path = <<Discovered[k].app_dir, "/">> \o Discovered[k].item.stem
                                \o <<".", Discovered[k].item.ext>>

C10_RecordsFollowDiscovery ==
    /\ (FirstPassDone \/ pc = "export") => OnePerDiscovered(installed_apps)
    /\ pc = "export" => OnePerDiscovered(export_data[1].applications)

C10_SecondPassFrame ==
    (pc \in {"check", "found"} /\ pc' \in {"check", "found", "completed"}) =>
        /\ Len(installed_apps') = Len(installed_apps)
        /\ \A k \in 1..Len(installed_apps) :
              /\ installed_apps'[k].name = installed_apps[k].name
              /\ installed_apps'[k].path = installed_apps[k].path
              /\ installed_apps'[k].is_brew = installed_apps[k].is_brew
              /\ installed_apps'[k].brew_type = installed_apps[k].brew_type

C10_NoRecordDroppedOrReordered ==
    [](C10_RecordsFollowDiscovery) /\ [][C10_SecondPassFrame]_vars

C10_Witness ==
    /\ pc = "export"
    /\ Len(export_data[1].applications) = 2
    /\ export_data[1].applications[1].path[1] # export_data[1].applications[2].path[1]
    /\ export_data[1].applications[1].name # export_data[1].applications[2].name
    /\ export_data[1].applications[1].is_brew
    /\ export_data[1].applications[2].has_brew_equivalent = Some(TRUE)

(* C11: the record of an application depends on that application and on *)
(* the two catalogs only.  At every point of the second pass each stored   *)
(* record is the record the passes give its application alone, whatever    *)
(* else is listed and in whatever order.  When the loop has returned, the  *)
(* records it stored are the records every other evaluation of the same    *)
(* loop body gives: taking the records of the first pass in any order,     *)
(* one evaluation per record, the assignments of different records         *)
(* interleaved in any way, and collecting the records when all are done.   *)
\* The records the loop of the platform appends for the entries `items`,
\* each with its directory
FirstPass(items) ==
    [k \in 1..Len(items) |->
        IF platform = "darwin"
        THEN macos_app(items[k].app_dir, items[k].item, brew_casks)
        ELSE linux_app(items[k].app_dir, items[k].item, brew_formulae)]

BothPasses(items) ==
    LET created == FirstPass(items)
    IN  [k \in 1..Len(created) |-> CheckApp(created[k], brew_casks, brew_formulae)]

\* The record of entry k alone, as the first pass creates it, between the
\* two assignments of the second pass, and after the second pass
Alone(k, at) ==
    LET created == FirstPass(<<Discovered[k]>>)[1]
        checked == BothPasses(<<Discovered[k]>>)[1]
    IN  IF at = "done" THEN checked
        ELSE IF at = "found"
        THEN [created EXCEPT !.has_brew_equivalent = checked.has_brew_equivalent]
        ELSE created

\* Where the loop of the code stands on record k
LoopAt(k) ==
    IF SecondPassDone(k) THEN "done"
    ELSE IF pc = "found" /\ k = idx THEN "found"
    ELSE "todo"

\* An evaluation of the loop body per record, none started: each holds the
\* record of the first pass
Evaluations(created) ==
    [k \in 1..Len(created) |-> [app |-> created[k], at |-> "todo"]]

\* The next statement of the evaluation of record k: the body up to its
\* first assignment, or the assignment of the name after the flag
Statement(evals, k) ==
    IF evals[k].at = "todo"
    THEN LET checked == CheckApp(evals[k].app, brew_casks, brew_formulae)
         IN  IF Truthy(checked.has_brew_equivalent)
             THEN [evals EXCEPT ![k].app.has_brew_equivalent = Some(TRUE),
                                ![k].at = "found"]
             ELSE [evals EXCEPT ![k].app = checked, ![k].at = "done"]
    ELSE [evals EXCEPT
             ![k].app = CheckApp([@ EXCEPT !.has_brew_equivalent = None],
                                 brew_casks, brew_formulae),
             ![k].at = "done"]

\* Every schedule of the statements of the evaluations `evals` after the
\* statements `order` (the records they belonged to), with the records
\* collected at its end
RECURSIVE Schedules(_, _)
Schedules(evals, order) ==
    LET open == {k \in 1..Len(evals) : evals[k].at # "done"}
    IN  IF open = {}
        THEN {[order |-> order, apps |-> [k \in 1..Len(evals) |-> evals[k].app]]}
        ELSE UNION {Schedules(Statement(evals, k), Append(order, k)) : k \in open}

CatalogsPopulated ==
    /\ brew_status.formula = "ok"
    /\ brew_status.cask \in {"ok", "failed"}
    /\ brew_formulae = listed_formulae
    /\ brew_casks = IF brew_status.cask = "ok" THEN listed_casks ELSE <<>>

C12_ReadsCatalogs ==
    \/ installed_apps' # installed_apps
    \/ idx' > idx
    \/ pc' = "check"

C12_CatalogBarrier ==
    /\ [](pc \in {"packages", "check", "found"} => CatalogsPopulated)
    /\ [][C12_ReadsCatalogs => CatalogsPopulated /\ CatalogsPopulated']_vars

C12_Witness ==
    /\ pc = "check"
    /\ idx = 2
    /\ brew_status = Status("ok", "failed")
    /\ listed_casks # <<>>
    /\ brew_formulae # <<>>
    /\ installed_apps[1].has_brew_equivalent = Some(TRUE)

(* C13: when the formula command fails the scan aborts and reports it:   *)
(* get_brew_packages and run_scan return False, the cask command is not    *)
(* run, no application is listed, no ownership check is made and           *)
(* check_brew_equivalents is not invoked; the program returns to the menu  *)
(* (or ends, when interrupted) with catalogs and records as they were.     *)
FormulaFetchFailed == brew_status.formula = "failed"

C13_ScanAborted ==
    UNCHANGED <<brew_formulae, brew_casks, installed_apps, idx>>

C13_CatalogUnavailable ==
    /\ [](FormulaFetchFailed =>
            /\ pc = "failed"
            /\ brew_status.cask = "none"
            /\ idx = 0)
    /\ [][FormulaFetchFailed' => C13_ScanAborted]_vars
    /\ [][FormulaFetchFailed => pc' \in {"menu", "exit"} /\ C13_ScanAborted]_vars

C13_Witness ==
    /\ FormulaFetchFailed
    /\ pc = "failed"
    /\ installed_apps # <<>>
    /\ brew_formulae # <<>>

(* C14: when the formula command succeeds and the cask command fails the  *)
(* cask catalog is the empty set, get_brew_packages returns True, the scan *)
(* goes through both passes, and no record is cask-owned or has a cask as  *)
(* its equivalent.                                                         *)
CaskFetchFailed == brew_status = Status("ok", "failed")

\* No record is owned through a cask, and a recorded equivalent is the one
\* the formula loop alone finds
C14_NothingFromCasks ==
    \A k \in 1..Len(installed_apps) :
        LET app == installed_apps[k]
        IN  /\ app.brew_type # Some("cask")
            /\ platform = "darwin" => ~app.is_brew
            /\ (SecondPassDone(k) /\ ~app.is_brew) =>
                  /\ app.brew_equivalent \in
                        {None} \cup {Some(e) : e \in Entries(brew_formulae)}
                  /\ app.brew_equivalent =
                        SearchCatalog(AppInfo(app.name, app.path, FALSE, None),
                                      brew_formulae).brew_equivalent

\* As stated: on every platform
C14_PartialCatalogAlwaysScans ==
    CaskFetchFailed =>
        /\ brew_casks = <<>>
        /\ brew_formulae = listed_formulae
        /\ pc \in {"packages", "check", "found", "completed"}
        /\ FirstPassDone => C14_NothingFromCasks

\* Amended: the scan goes through both passes on a supported platform; on
\* any other platform run_scan returns False after get_brew_packages
C14_PartialCatalog ==
    CaskFetchFailed =>
        /\ brew_casks = <<>>
        /\ brew_formulae = listed_formulae
        /\ IF platform \in {"darwin", "linux"}
           THEN pc \in {"packages", "check", "found", "completed"}
           ELSE pc \in {"packages", "failed"}
        /\ FirstPassDone => C14_NothingFromCasks

C14_Witness ==
    /\ CaskFetchFailed
    /\ pc = "completed"
    /\ platform = "darwin"
    /\ \E k \in 1..Len(installed_apps) :
          /\ is_brew_cask(installed_apps[k].name, listed_casks)
          /\ ~installed_apps[k].is_brew
          /\ installed_apps[k].has_brew_equivalent = Some(TRUE)
          /\ installed_apps[k].brew_equivalent[1] \notin Entries(listed_casks)

(* C15: a scan that discovers no application is not an error: after it    *)
(* the summary and the export are available and show zero counts and an    *)
(* empty application list.                                                 *)
ZeroSummary ==
    [total |-> 0, brew_managed |-> 0, non_brew |-> 0, has_brew_equivalent |-> 0,
     listed |-> <<>>]

ZeroExport ==
    [total_apps |-> 0, brew_managed |-> 0, has_brew_equivalent |-> 0,
     applications |-> <<>>]

C15_EmptyScanIsReported ==
    (pc = "completed" /\ Discovered = <<>>) =>
        /\ installed_apps = <<>>
        /\ has_scan_data(installed_apps)
        /\ SummaryOf(installed_apps) = ZeroSummary
        /\ ExportOf(installed_apps) = ZeroExport

(* C16: a discovered entry with an empty name or path is left out of the   *)
(* records and of the totals.                                              *)
C16_NoRecordWithoutName ==
    FirstPassDone =>
        /\ \A k \in 1..Len(installed_apps) :
              /\ installed_apps[k].name # <<>>
              /\ installed_apps[k].path # <<>>
        /\ Len(installed_apps) =
              Len(SelectSeq(Discovered, LAMBDA e : e.item.stem # <<>>))

(* C17: wherever results can be shown or exported (the menu and the       *)
(* summary, browse and export screens) every stored non-owned record has   *)
(* has_brew_equivalent evaluated to True or False, never None; so have the *)
(* records on the browse screen and in the exported dictionary.            *)
Reportable == pc \in {"menu", "summary", "browse", "export", "notice"}

Evaluated(app) == app.is_brew \/ app.has_brew_equivalent \in {Some(TRUE), Some(FALSE)}

C17_NoPartialResults ==
    Reportable =>
        /\ \A k \in 1..Len(installed_apps) : Evaluated(installed_apps[k])
        /\ view # None => \A k \in 1..Len(view[1]) : Evaluated(view[1][k])
        /\ export_data # None =>
              \A k \in 1..Len(export_data[1].applications) :
                  Evaluated(export_data[1].applications[k])

C17_Witness ==
    /\ pc = "export"
    /\ Len(export_data[1].applications) = 2
    /\ \E k \in 1..2 :
          /\ ~installed_apps[k].is_brew
          /\ export_data[1].applications[k].has_brew_equivalent = Some(FALSE)
    /\ \E k \in 1..2 :
          /\ ~installed_apps[k].is_brew
          /\ export_data[1].applications[k].has_brew_equivalent = Some(TRUE)

(* C18: a new scan discards all prior records: after a scan has been run  *)
(* the stored records are only those this scan created (none, when the     *)
(* scan was aborted), and no record of an earlier scan remains visible.    *)
C18_OnlyRecordsOfLastScan ==
    pc \in {"failed", "completed"} =>
        installed_apps = IF pc = "completed" THEN BothPasses(Discovered) ELSE <<>>

(* C19: between the end of one scan and the start of the next every menu  *)
(* operation (summary, browse with any filter, app details, export) leaves *)
(* the record list, every field of every record, and both catalogs         *)
(* unchanged.                                                              *)
C19_MenuOperation ==
    \/ pc = "menu" /\ pc' \in {"summary", "browse", "export", "notice", "exit"}
    \/ pc \in {"completed", "failed", "summary", "browse", "export", "notice"}

C19_RecordsImmutable ==
    [][C19_MenuOperation =>
          UNCHANGED <<installed_apps, brew_formulae, brew_casks>>]_vars

C19_Witness ==
    /\ pc = "browse"
    /\ Len(installed_apps) = 2
    /\ Len(view[1]) = 1
    /\ installed_apps[1].is_brew
    /\ installed_apps[2].has_brew_equivalent = Some(TRUE)
    /\ brew_casks # <<>>
    /\ brew_formulae # <<>>

(* C20: normalization is deterministic and idempotent for every raw name: *)
(* the key with spaces and hyphens removed and the key with spaces turned   *)
(* into hyphens are both unchanged by a second application, and so are the  *)
(* keys of the ownership tests; searching for the key of a name gives what  *)
(* searching for the name gives.                                            *)
C20_Idempotent(n) ==
    /\ StrippedKey(StrippedKey(n)) = StrippedKey(n)
    /\ AppKey(AppKey(n)) = AppKey(n)
    /\ lower(lower(n)) = lower(n)
    /\ remove(lower(remove(lower(n), "-")), "-") = remove(lower(n), "-")
    /\ remove(lower(remove(lower(n), " ")), " ") = remove(lower(n), " ")

C20_SameSearch(app) ==
    LET again == CheckApp(AppInfo(AppKey(app.name), app.path, FALSE, None),
                          brew_casks, brew_formulae)
    IN  /\ app.has_brew_equivalent = again.has_brew_equivalent
        /\ app.brew_equivalent = again.brew_equivalent

C20_NormalizationIdempotent ==
    /\ \A k \in 1..Len(Discovered) : C20_Idempotent(Discovered[k].item.stem)
    /\ \A k \in 1..Len(installed_apps) :
          /\ C20_Idempotent(installed_apps[k].name)
          /\ (SecondPassDone(k) /\ ~installed_apps[k].is_brew) =>
                C20_SameSearch(installed_apps[k])

C20_Witness ==
    /\ pc = "completed"
    /\ installed_apps[1].name = <<"A", " ", "a">>
    /\ AppKey(installed_apps[1].name) = <<"a", "-", "a">>
    /\ StrippedKey(installed_apps[1].name) = <<"a", "a">>
    /\ installed_apps[1].brew_equivalent = Some(<<"a", "-", "A">>)

(* C21: with formulae {git, htop}, casks {visual-studio-code} and the     *)
(* applications Git, Code, RandomTool listed in this order, a scan where    *)
(* both commands succeed yields: Git not owned, equivalent git; Code not    *)
(* owned, equivalent visual-studio-code; RandomTool not owned, no           *)
(* equivalent; and the export counts 3 applications, 0 brew-managed, 2 with *)
(* an equivalent.                                                           *)
C21_Expected(app, name, has, equivalent) ==
    /\ app.name = name
    /\ ~app.is_brew
    /\ app.brew_type = None
    /\ app.has_brew_equivalent = Some(has)
    /\ app.brew_equivalent = equivalent

C21_Scenario ==
    /\ (pc = "completed" /\ brew_status = Status("ok", "ok")) =>
          /\ Len(installed_apps) = 3
          /\ C21_Expected(installed_apps[1], Name_Git, TRUE, Some(Name_git))
          /\ C21_Expected(installed_apps[2], Name_Code, TRUE, Some(Name_vscode))
          /\ C21_Expected(installed_apps[3], Name_RandomTool, FALSE, None)
          /\ ExportOf(installed_apps).total_apps = 3
          /\ ExportOf(installed_apps).brew_managed = 0
          /\ ExportOf(installed_apps).has_brew_equivalent = 2
    /\ (pc = "export" /\ brew_casks # <<>>) =>
          /\ export_data[1].total_apps = 3
          /\ export_data[1].brew_managed = 0
          /\ export_data[1].has_brew_equivalent = 2
    /\ (pc = "summary" /\ brew_casks # <<>>) =>
          /\ summary[1].total = 3
          /\ summary[1].brew_managed = 0
          /\ summary[1].has_brew_equivalent = 2

C21_Witness ==
    /\ pc = "export"
    /\ brew_casks = <<Name_vscode>>
    /\ brew_formulae = <<Name_htop, Name_git>>
    /\ Len(Visited(app_dirs, fs_items)) = 4
    /\ fs_items[1] = None
    /\ fs_items[2] # None
    /\ fs_items[3] # None
    /\ export_data[1].applications[2].brew_equivalent = Some(Name_vscode)

(* C22: the text export_to_json writes, parsed back as JSON, gives the     *)
(* counts total_apps, brew_managed and has_brew_equivalent and the ordered  *)
(* applications list of the dictionary that was dumped, every entry with    *)
(* its name, path, is_brew, brew_type, has_brew_equivalent (true, false or  *)
(* null) and brew_equivalent unchanged, whenever the dump has written the   *)
(* whole of its text.                                                       *)

\* json.load: a parsed value is null, a bool, a number, a string, an array
\* or an object with its keys in order
JValue(kind, value) == [k |-> kind, v |-> value]

RECURSIVE Unescape(_)
Unescape(text) ==
    IF text = <<>> THEN <<>>
    ELSE IF Head(text) = "\\" /\ Len(text) >= 2
         THEN <<text[2]>> \o Unescape(Tail(Tail(text)))
         ELSE <<Head(text)>> \o Unescape(Tail(text))

DigitValue(d) == (CHOOSE n \in 1..10 : Digits[n] = d) - 1

RECURSIVE IntValue(_)
IntValue(text) ==
    IF Len(text) = 1 THEN DigitValue(text[1])
    ELSE 10 * IntValue(SubSeq(text, 1, Len(text) - 1)) + DigitValue(text[Len(text)])

RECURSIVE ParseValue(_, _)
RECURSIVE ParseElements(_, _, _)
RECURSIVE ParseMembers(_, _, _, _)

\* The value that starts at token i, and the position after it
ParseValue(toks, i) ==
    LET tok == toks[i]
    IN  IF tok.t = "string" THEN [v |-> JValue("string", Unescape(tok.v)), i |-> i + 1]
        ELSE IF tok.t = "number"
        THEN [v |-> JValue("number", IntValue(tok.v)), i |-> i + 1]
        ELSE IF tok.t = "literal"
        THEN [v |-> IF tok.v = <<"null">> THEN JValue("null", <<>>)
                    ELSE JValue("bool", tok.v = <<"true">>),
              i |-> i + 1]
        ELSE IF tok = Punct("[")
        THEN IF toks[i + 1] = Punct("]")
             THEN [v |-> JValue("array", <<>>), i |-> i + 2]
             ELSE ParseElements(toks, i + 1, <<>>)
        ELSE IF toks[i + 1] = Punct("}")
             THEN [v |-> JValue("object", [keys |-> <<>>, vals |-> <<>>]), i |-> i + 2]
             ELSE ParseMembers(toks, i + 1, <<>>, <<>>)

ParseElements(toks, i, acc) ==
    LET r == ParseValue(toks, i)
    IN  IF toks[r.i] = Punct(",")
        THEN ParseElements(toks, r.i + 1, Append(acc, r.v))
        ELSE [v |-> JValue("array", Append(acc, r.v)), i |-> r.i + 1]

ParseMembers(toks, i, keys, vals) ==
    LET key == Unescape(toks[i].v)
        r == ParseValue(toks, i + 2)
    IN  IF toks[r.i] = Punct(",")
        THEN ParseMembers(toks, r.i + 1, Append(keys, key), Append(vals, r.v))
        ELSE [v |-> JValue("object", [keys |-> Append(keys, key),
                                      vals |-> Append(vals, r.v)]),
              i |-> r.i + 1]

json_load(toks) == ParseValue(toks, 1).v

\* obj[key] of a parsed object
Member(obj, key) ==
    obj.v.vals[CHOOSE n \in 1..Len(obj.v.keys) : obj.v.keys[n] = <<key>>]

\* A parsed value that is None or a str or a bool, as the Optional it is
AsOptional(j) == IF j.k = "null" THEN None ELSE Some(j.v)

\* The parsed report, in the shape of export_data
AsReport(j) ==
    [total_apps |-> Member(j, "total_apps").v,
     brew_managed |-> Member(j, "brew_managed").v,
     has_brew_equivalent |-> Member(j, "has_brew_equivalent").v,
     applications |->
        [n \in 1..Len(Member(j, "applications").v) |->
            LET a == Member(j, "applications").v[n]
            IN  [name |-> Member(a, "name").v,
                 path |-> Member(a, "path").v,
                 is_brew |-> Member(a, "is_brew").v,
                 brew_type |-> IF Member(a, "brew_type").k = "null" THEN None
                               ELSE Member(a, "brew_type").v,
                 has_brew_equivalent |-> AsOptional(Member(a, "has_brew_equivalent")),
                 brew_equivalent |-> AsOptional(Member(a, "brew_equivalent"))]]]

\* The dump returned: the file is there and holds every token of the text
Serialized ==
    /\ pc = "export"
    /\ written # None
    /\ Len(written[1]) = Len(json_dump(export_data[1]))

C22_RoundTrip ==
    Serialized =>
        /\ Member(json_load(written[1]), "applications").k = "array"
        /\ AsReport(json_load(written[1])) = export_data[1]
        /\ AsReport(json_load(written[1])) = ExportOf(installed_apps)

C22_Witness ==
    /\ Serialized
    /\ Len(installed_apps) = 2
    /\ installed_apps[1].name = <<"a">>
    /\ installed_apps[2].name = <<"\\", "\"", "A">>
    /\ AsReport(json_load(written[1])).applications[1].brew_equivalent =
           Some(<<"A", "a">>)
    /\ AsReport(json_load(written[1])).applications[2].name = <<"\\", "\"", "A">>
    /\ AsReport(json_load(written[1])).applications[2].has_brew_equivalent =
           Some(FALSE)
    /\ AsReport(json_load(written[1])).applications[2].brew_equivalent = None

(* C23: the stored state stays consistent across scans, failed ones       *)
(* included: whenever the menu is shown, and when a scan has just returned, *)
(* failed or not, the stored records are what the two passes give one       *)
(* application list under the stored catalogs; a failed scan leaves no      *)
(* record classified against other catalogs than the stored ones.           *)
MenuShown == pc \in {"menu", "failed", "completed"}

\* The entries the stored records came from: the directory is the head of
\* the path, the name is the entry without its suffix
ListedAs(apps) ==
    [k \in 1..Len(apps) |->
        [app_dir |-> apps[k].path[1],
         item |-> [stem |-> apps[k].name, ext |-> AppExt(platform)]]]

C23_RecordsMatchCatalogs ==
    MenuShown =>
        /\ installed_apps = BothPasses(ListedAs(installed_apps))
        /\ installed_apps # <<>> => installed_apps = BothPasses(Discovered)

C23_Witness ==
    /\ pc = "failed"
    /\ FormulaFetchFailed
    /\ brew_casks = <<>>
    /\ listed_casks # <<>>
    /\ Len(installed_apps) = 2
    /\ \E k \in 1..2 : installed_apps[k].has_brew_equivalent = Some(TRUE)
    /\ \E k \in 1..2 : is_brew_cask(installed_apps[k].name, listed_casks)

\* The rearrangements of n places
Permutations(n) ==
    {p \in [1..n -> 1..n] : \A x, y \in 1..n : x # y => p[x] # p[y]}

(* C24: for a fixed application and fixed catalog contents the search     *)
(* gives, under every iteration order of the casks and of the formulae, the *)
(* same has_brew_equivalent and an entry of the same category (found by the *)
(* cask loop or by the formula loop); only the entry named may differ.      *)
Reordered(catalog) ==
    {[i \in 1..Len(catalog) |-> catalog[p[i]]] : p \in Permutations(Len(catalog))}

\* The record as created, before the search
Unsearched(app) == AppInfo(app.name, app.path, app.is_brew, app.brew_type)

\* The loop that found the equivalent
FoundBy(app, casks, formulae) ==
    IF Truthy(SearchCatalog(Unsearched(app), casks).has_brew_equivalent) THEN "cask"
    ELSE IF Truthy(SearchCatalog(Unsearched(app), formulae).has_brew_equivalent)
    THEN "formula"
    ELSE "none"

C24_VerdictOrderIndependent ==
    \A k \in 1..Len(installed_apps) :
        (SecondPassDone(k) /\ ~installed_apps[k].is_brew) =>
            LET app == installed_apps[k]
                found == FoundBy(app, brew_casks, brew_formulae)
                cask_orders == Reordered(brew_casks)
                formula_orders == Reordered(brew_formulae)
            IN  \A casks \in cask_orders : \A formulae \in formula_orders :
                    LET other == CheckApp(Unsearched(app), casks, formulae)
                    IN  /\ other.has_brew_equivalent = app.has_brew_equivalent
                        /\ FoundBy(app, casks, formulae) = found
                        /\ (other.brew_equivalent = None)
                               <=> (app.brew_equivalent = None)

\* Another order of the formulae names another formula for the same record
C24_Witness ==
    /\ pc = "completed"
    /\ \E k \in 1..Len(installed_apps) :
          /\ ~installed_apps[k].is_brew
          /\ installed_apps[k].has_brew_equivalent = Some(TRUE)
          /\ \E formulae \in Reordered(brew_formulae) :
                CheckApp(Unsearched(installed_apps[k]), brew_casks, formulae)
                    .brew_equivalent # installed_apps[k].brew_equivalent

(* C25: when no catalog entry contains a space, an application whose name *)
(* equals, case-insensitively, an entry of either stored catalog ends the   *)
(* scan manager-owned or with has_brew_equivalent = True, never with False. *)
NoSpaceInCatalogs ==
    \A e \in Entries(brew_casks) \cup Entries(brew_formulae) : ~contains(e, <<" ">>)

ExactlyNamed(name) ==
    \E e \in Entries(brew_casks) \cup Entries(brew_formulae) : lower(e) = lower(name)

C25_NoExactNameMissed ==
    \A k \in 1..Len(installed_apps) :
        (SecondPassDone(k) /\ NoSpaceInCatalogs /\ ExactlyNamed(installed_apps[k].name))
            => \/ installed_apps[k].is_brew
               \/ /\ installed_apps[k].has_brew_equivalent = Some(TRUE)
                  /\ installed_apps[k].brew_equivalent # None

\* The name is in the catalog of the other category only, and differs in case
C25_Witness ==
    /\ pc = "completed"
    /\ NoSpaceInCatalogs
    /\ installed_apps[1].name = Name_Git
    /\ Name_git \in Entries(brew_casks) \cup Entries(brew_formulae)
    /\ Name_git \notin Entries(OriginCatalog)
    /\ ~installed_apps[1].is_brew
    /\ installed_apps[1].has_brew_equivalent = Some(TRUE)

(* C26: a non-owned application whose key is the empty string gets        *)
(* has_brew_equivalent = True whenever a stored catalog is non-empty (the   *)
(* first entry iterated is named) and False only when both are empty; and   *)
(* an empty catalog entry is accepted for every non-owned application whose *)
(* search reaches it.                                                       *)

\* The loop over the catalog gets as far as position j
Reaches(catalog, j, key) == \A i \in 1..(j - 1) : ~Equivalent(catalog[i], key)

C26_EmptyKey(app) ==
    AppKey(app.name) = <<>> =>
        /\ app.has_brew_equivalent = Some(TRUE)
              <=> (brew_casks # <<>> \/ brew_formulae # <<>>)
        /\ app.has_brew_equivalent = Some(FALSE)
              <=> (brew_casks = <<>> /\ brew_formulae = <<>>)
        /\ brew_casks # <<>> => app.brew_equivalent = Some(brew_casks[1])
        /\ (brew_casks = <<>> /\ brew_formulae # <<>>)
              => app.brew_equivalent = Some(brew_formulae[1])

C26_EmptyEntry(app) ==
    /\ \A j \in 1..Len(brew_casks) :
          (brew_casks[j] = <<>> /\ Reaches(brew_casks, j, AppKey(app.name))) =>
              /\ app.has_brew_equivalent = Some(TRUE)
              /\ app.brew_equivalent = Some(<<>>)
    /\ \A j \in 1..Len(brew_formulae) :
          (/\ brew_formulae[j] = <<>>
           /\ Reaches(brew_casks, Len(brew_casks) + 1, AppKey(app.name))
           /\ Reaches(brew_formulae, j, AppKey(app.name))) =>
              /\ app.has_brew_equivalent = Some(TRUE)
              /\ app.brew_equivalent = Some(<<>>)

C26_EmptyStringContained ==
    \A k \in 1..Len(installed_apps) :
        (SecondPassDone(k) /\ ~installed_apps[k].is_brew) =>
            /\ C26_EmptyKey(installed_apps[k])
            /\ C26_EmptyEntry(installed_apps[k])

C26_Witness ==
    /\ pc = "completed"
    /\ Len(installed_apps) = 2
    /\ installed_apps[1].name = <<>>
    /\ ~installed_apps[1].is_brew
    /\ installed_apps[1].brew_equivalent = Some(<<"b">>)
    /\ installed_apps[2].name = <<"a">>
    /\ installed_apps[2].brew_equivalent = Some(<<>>)

====
